---- MODULE Spec2Model ----
(***************************************************************************)
(* Model of trillian/ctfe/ct_server/main.go: the ct_server binary.         *)
(*                                                                         *)
(* The main goroutine is followed statement by statement (pc), together    *)
(* with the goroutines it starts: the separate metrics listener, one       *)
(* get-sth goroutine per configured log, and awaitSignal.  The environment *)
(* is the etcd directory, the Trillian backend, the clock and the          *)
(* operating system's signals.                                             *)
(***************************************************************************)
EXTENDS Integers, Sequences, FiniteSets, TLC

\* ---------------------------------------------------------------- bounds
MaxLogs == 2          \* longest log configuration that is loaded
MaxUpdates == 3       \* longest history of updates sent to a directory

\* ------------------------------------------------------- program constants
etcdHTTPService    == "trillian-ctfe-http"
etcdMetricsService == "trillian-ctfe-metrics-http"
MetricsPath        == <<"", "metrics">>   \* "/metrics"
ExitfStatus        == 1      \* glog.Exitf: os.Exit(1)
SignalExitStatus   == 1      \* the doneFn handed to awaitSignal: os.Exit(1)
PanicStatus        == 2      \* a Go program that panics exits with status 2
ReturnStatus       == 0      \* main returning: exit status 0

\* ------------------------------------------------------------ input domains
Intervals  == {0, 1, 2}
Signals    == {"SIGINT", "SIGTERM"}
LogConfigs == { [LogId |-> 1, Prefix |-> "a"], [LogId |-> 2, Prefix |-> "b"] }
EntryPoints == {"get-sth", "add-chain"}
\* values of --log_rpc_server: a comma-separated list of addresses, or
\* (with --etcd_servers) the name of the etcd service of the log servers
StaticBackends == { <<"b1:8090">>, <<"b1:8090", ",", "b2:8090">> }
BackendService == <<"trillian-logserver">>
\* the addresses the log servers have registered under that service
EtcdBackends   == { <<"b1:8090">>, <<"b2:8090">> }
UpdateOutcomes == {"ok", "err", "stuck"}

RECURSIVE SeqsUpTo(_, _)
SeqsUpTo(S, n) ==
    IF n = 0 THEN { <<>> }
    ELSE LET shorter == SeqsUpTo(S, n - 1)
         IN  shorter \cup { Append(s, x) : s \in shorter, x \in S }

Configs == SeqsUpTo(LogConfigs, MaxLogs)

\* pc           where the main goroutine stands: "loadcfg" (65), "resolver"
\*              (82), "announceHTTP" (96), "announceMetrics" (98), "dial"
\*              (113), "setup" (122-143), "tickers" (145-165), "listen"
\*              (167), "serving" (inside ListenAndServe), "defers" (main is
\*              returning or panicking), "done"
\* defers       the deferred calls of main, in the order they were deferred
\* rpcBackendFlag  --log_rpc_server, as the sequence of its pieces, a comma
\*              being the piece ","
\* endpoints    the addresses the backend connection balances over
\* dialled      how many backend connections were created; the one that
\*              line 118 wraps in client is number 1
\* setUps       every call of ctfe.SetUpInstance, in order: the position in
\*              cfg of the log it was called for and the connection it got
\* taskClient   per get-sth goroutine, the connection it fetches on
\* regAge       per registered log, the time since its registration,
\*              counted up to getSTHInterval (the one length it matters to
\*              compare it with)
\* mux          http.DefaultServeMux: pairs <<path, owner>>, the owner being
\*              the position of the log in cfg, or 0 for the metrics handler
\* taskPc       per get-sth goroutine: "waiting" (152), or in GetTreeHead
\*              (154): "fetching" when the backend answers the call,
\*              "unanswered" when it never does
\* tickerLeft   per ticker, the time until its next tick
\* tickerC      per ticker, the number of ticks in its channel (0 or 1)
\* sigs         the channel of awaitSignal (capacity 1)
\* directory    the <<service, address>> records held by etcd
\* fatal        the startup failure that occurred, if any
\* updates      every Update sent to etcd, in order
\* failed       the goroutine whose fetch failed most recently (0: none yet)
VARIABLES
    \* flags
    httpEndpoint, metricsEndpoint, etcdServers, getSTHInterval,
    rpcBackendFlag,
    \* main goroutine
    pc, cfg, metricsAt, etcdClient, defers, conn, regAge, mux,
    endpoints, dialled, setUps,
    \* goroutines
    metricsServer, metricsMux, taskPc, taskCfg, taskClient, tickerLeft, tickerC,
    sigPc, sigs,
    \* the main listener
    server,
    \* process and environment
    status, exitCode, exitBy, panicking, directory,
    \* history
    fatal, updates, failed

flagVars == <<httpEndpoint, metricsEndpoint, etcdServers, getSTHInterval,
             rpcBackendFlag>>
connVars == <<endpoints, dialled, setUps>>
mainVars == <<pc, cfg, metricsAt, etcdClient, defers, conn, regAge, mux, connVars>>
metricsVars == <<metricsServer, metricsMux>>
taskVars == <<taskPc, taskCfg, taskClient, tickerLeft, tickerC>>
sigVars  == <<sigPc, sigs>>
procVars == <<status, exitCode, exitBy, panicking>>
histVars == <<fatal, updates, failed>>

vars == <<flagVars, mainVars, metricsVars, taskVars, sigVars, server,
          procVars, directory, histVars>>

Running == status = "running"

\* ------------------------------------------------------------------- Init
Init ==
    /\ httpEndpoint = "h:6962"
    /\ metricsEndpoint \in {"", "h:6962", "m:6963"}
    /\ etcdServers \in BOOLEAN          \* len(*etcdServers) > 0
    /\ getSTHInterval \in Intervals
    /\ rpcBackendFlag \in IF etcdServers THEN { BackendService }
                                        ELSE StaticBackends
    /\ pc = "loadcfg"
    /\ cfg = <<>>
    /\ metricsAt = ""
    /\ etcdClient = "none"
    /\ defers = <<>>
    /\ conn = "none"
    /\ regAge = <<>>
    /\ mux = {}
    /\ endpoints = {}
    /\ dialled = 0
    /\ setUps = <<>>
    /\ metricsServer = "none"
    /\ metricsMux = {}
    /\ taskPc = <<>>
    /\ taskCfg = <<>>
    /\ taskClient = <<>>
    /\ tickerLeft = <<>>
    /\ tickerC = <<>>
    /\ sigPc = "none"
    /\ sigs = <<>>
    /\ server = "none"
    /\ status = "running"
    /\ exitCode = -1
    /\ exitBy = "none"
    /\ panicking = FALSE
    /\ directory = {}
    /\ fatal = "none"
    /\ updates = <<>>
    /\ failed = 0

\* ------------------------------------------------------ ways to terminate
\* os.Exit: the process ends at once; deferred calls do not run.
Exit(code, by) ==
    /\ status' = "exited"
    /\ exitCode' = code
    /\ exitBy' = by
    /\ UNCHANGED panicking

\* (variant: the error is logged with glog.Errorf and main goes on)
Exitf_logged(why) ==
    /\ fatal' = why
    /\ UNCHANGED procVars

\* glog.Exitf
Exitf(why) ==
    /\ Exit(ExitfStatus, "exitf")
    /\ fatal' = why

\* A panic in the main goroutine: the deferred calls run, then exit 2.
Panic ==
    /\ panicking' = TRUE
    /\ fatal' = "panic"
    /\ pc' = "defers"
    /\ UNCHANGED <<status, exitCode, exitBy>>

\* ------------------------------------------------------ the etcd directory
\* etcdRes.Update(ctx, service, naming.Update{Op, Addr}); the error it
\* returns is dropped by every caller in main.
\* (variant: a Delete leaves the record where it is)
ApplyUpdate_keep(dir, op, service, addr) == dir \cup { <<service, addr>> }

\* naming.Add writes the record of the address under the service and
\* naming.Delete removes it
ApplyUpdate(dir, op, service, addr) ==
    IF op = "Add" THEN dir \cup { <<service, addr>> }
                  ELSE dir \ { <<service, addr>> }

\* The call is made with context.Background() (58): etcd applies it, or
\* answers with an error, or never answers, and then the call never returns.
Update(op, service, addr, out) ==
    /\ directory' = IF out = "ok" THEN ApplyUpdate(directory, op, service, addr)
                                  ELSE directory
    /\ updates' = Append(updates, [Op |-> op, Service |-> service, Addr |-> addr])

\* ------------------------------------------------------------ main(): 56-170
\* 65-76: read the log config; metricsAt defaults to the HTTP endpoint.
MetricsAtFor(m, h) == IF m = "" THEN h ELSE m

LoadConfig ==
    /\ Running /\ pc = "loadcfg"
    /\ \/ /\ Exitf("config")
          /\ UNCHANGED <<pc, cfg, metricsAt>>
       \/ /\ cfg' \in Configs
          /\ metricsAt' = MetricsAtFor(metricsEndpoint, httpEndpoint)
          /\ pc' = "resolver"
          /\ UNCHANGED <<procVars, fatal>>
    /\ UNCHANGED <<flagVars, connVars, etcdClient, defers, conn, regAge, mux, metricsVars,
                   taskVars, sigVars, server, directory, updates, failed>>

\* 82-90: clientv3.New
NewEtcdClient ==
    /\ Running /\ pc = "resolver" /\ etcdServers
    /\ \/ /\ Exitf("etcd")
          /\ UNCHANGED <<pc, etcdClient>>
       \/ /\ etcdClient' = "open"
          /\ pc' = "announceHTTP"
          /\ UNCHANGED <<procVars, fatal>>
    /\ UNCHANGED <<flagVars, connVars, cfg, metricsAt, defers, conn, regAge, mux, metricsVars,
                   taskVars, sigVars, server, directory, updates, failed>>

\* 108-111: util.FixedBackendResolver
FixedResolver ==
    /\ Running /\ pc = "resolver" /\ ~etcdServers
    /\ pc' = "dial"
    /\ UNCHANGED <<flagVars, connVars, cfg, metricsAt, etcdClient, defers, conn, regAge, mux,
                   metricsVars, taskVars, sigVars, server, procVars, directory,
                   histVars>>

\* 93, 95-96
AnnounceHTTP ==
    /\ Running /\ pc = "announceHTTP"
    /\ \E out \in UpdateOutcomes :
         /\ Update("Add", etcdHTTPService, httpEndpoint, out)
         /\ pc' = IF out = "stuck" THEN "blocked" ELSE "announceMetrics"
    /\ UNCHANGED <<flagVars, connVars, cfg, metricsAt, etcdClient, defers, conn, regAge, mux,
                   metricsVars, taskVars, sigVars, server, procVars,
                   fatal, failed>>

\* 94, 97-107: the second announce, then the retraction is deferred
AnnounceMetrics ==
    /\ Running /\ pc = "announceMetrics"
    /\ \E out \in UpdateOutcomes :
         /\ Update("Add", etcdMetricsService, metricsAt, out)
         /\ IF out = "stuck"
            THEN pc' = "blocked" /\ UNCHANGED defers
            ELSE pc' = "dial" /\ defers' = Append(defers, "byeHTTP")
    /\ UNCHANGED <<flagVars, connVars, cfg, metricsAt, etcdClient, conn, regAge, mux,
                   metricsVars, taskVars, sigVars, server, procVars,
                   fatal, failed>>

\* strings.Split(s, ","): the pieces between the commas
RECURSIVE Split(_)
Split(s) ==
    IF \A n \in 1 .. Len(s) : s[n] # ","
    THEN << s >>
    ELSE LET i == CHOOSE n \in 1 .. Len(s) :
                      s[n] = "," /\ \A m \in 1 .. n - 1 : s[m] # ","
         IN  << SubSeq(s, 1, i - 1) >> \o Split(SubSeq(s, i + 1, Len(s)))

Range(q) == { q[n] : n \in 1 .. Len(q) }

\* (variant: the fixed resolver hands the target over as one address)
Resolve_whole(etcd, target) ==
    IF etcd THEN EtcdBackends ELSE { target }

\* 81-111: what the resolver handed to the balancer resolves the target to.
\* util.FixedBackendResolver splits the target at its commas; the etcd
\* resolver lists the addresses registered under the target as a service.
Resolve(etcd, target) ==
    IF etcd THEN EtcdBackends ELSE Range(Split(target))

\* 112-118: grpc.Dial with WithBlock, then defer conn.Close(), then the
\* client that wraps the connection
Dial ==
    /\ Running /\ pc = "dial"
    /\ \/ /\ Exitf("dial")
          /\ UNCHANGED <<pc, conn, defers, endpoints, dialled>>
       \/ /\ conn' = "open"
          /\ endpoints' = Resolve(etcdServers, rpcBackendFlag)
          /\ dialled' = dialled + 1
          /\ defers' = Append(defers, "close")
          /\ pc' = "setup"
          /\ UNCHANGED <<procVars, fatal>>
    /\ UNCHANGED <<flagVars, setUps, cfg, metricsAt, etcdClient, regAge, mux, metricsVars,
                   taskVars, sigVars, server, directory, updates, failed>>

\* ------------------------------------------------------- instance registry
\* ctfe.SetUpInstance returns a map from URL path to handler; the paths of
\* one log all lie under its prefix.
Handlers(c) == { <<c.Prefix, e>> : e \in EntryPoints }

\* (variant: a second registration of a pattern goes unnoticed)
Installed_unseen == {}

\* http.Handle on the DefaultServeMux panics when the pattern is taken.
Installed == { e[1] : e \in mux }

\* (variant: the loop stops one element early)
LoopDone_early(k, c) == k >= Len(c)

\* 122: the range over cfg has come to its end
LoopDone(k, c) == k > Len(c)

\* (variant: the error is logged and the loop goes on to the next log)
SetUpError_skipped ==
    /\ fatal' = "setup"
    /\ regAge' = Append(regAge, 0)
    /\ UNCHANGED <<pc, mux, procVars>>

\* (variant: the call is made again for the same log)
SetUpError_retry ==
    UNCHANGED <<pc, regAge, mux, procVars, fatal>>

\* 123-126: SetUpInstance returned an error
SetUpError ==
    /\ Exitf("setup")
    /\ UNCHANGED <<pc, regAge, mux>>

\* (variant: every use gets a connection of its own)
Client_own == Len(setUps) + Len(taskPc) + 1

\* 118: the one client, which wraps the connection that Dial returned; it
\* is what SetUpInstance (123) and GetTreeHead (154) are given
Client == dialled

\* 122-130: one iteration of the registration loop
SetUp ==
    /\ Running /\ pc = "setup"
    /\ LET k == Len(regAge) + 1 IN
       /\ ~LoopDone(k, cfg)
       /\ setUps' = Append(setUps, [log |-> k, client |-> Client])
       /\ \/ SetUpError
          \/ /\ Handlers(cfg[k]) \cap Installed = {}
             /\ mux' = mux \cup { <<p, k>> : p \in Handlers(cfg[k]) }
             /\ regAge' = Append(regAge, 0)
             /\ UNCHANGED <<pc, procVars, fatal>>
          \/ /\ Handlers(cfg[k]) \cap Installed # {}
             /\ \E S \in SUBSET (Handlers(cfg[k]) \ Installed) :
                  mux' = mux \cup { <<p, k>> : p \in S }
             /\ Panic
             /\ UNCHANGED regAge
    /\ UNCHANGED <<flagVars, endpoints, dialled, cfg, metricsAt, etcdClient,
                   defers, conn, metricsVars, taskVars, sigVars, server,
                   directory, updates, failed>>

\* (variant: a separate listener whenever a metrics address is there)
SeparateMetrics_set(m, h) == m # ""

\* 131: the metrics get a listener of their own
SeparateMetrics(m, h) == m # h

MetricsSetup ==
    /\ Running /\ pc = "setup" /\ LoopDone(Len(regAge) + 1, cfg)
    /\ IF SeparateMetrics(metricsAt, httpEndpoint)
       THEN /\ metricsServer' = "spawned"
            /\ pc' = "tickers"
            /\ UNCHANGED <<mux, procVars, fatal>>
       ELSE IF MetricsPath \in Installed
            THEN /\ Panic
                 /\ UNCHANGED <<mux, metricsServer>>
            ELSE /\ mux' = mux \cup { <<MetricsPath, 0>> }
                 /\ pc' = "tickers"
                 /\ UNCHANGED <<metricsServer, procVars, fatal>>
    /\ UNCHANGED <<flagVars, connVars, cfg, metricsAt, etcdClient, defers, conn, regAge,
                   metricsMux, taskVars, sigVars, server, directory, updates, failed>>

\* (variant: a first tick is delivered at once)
NewTicker_burst(d) == [left |-> d, C |-> 1]

\* 149: time.NewTicker(d): the channel is empty and the first tick is d away
NewTicker(d) == [left |-> d, C |-> 0]

\* 145: periodic get-sth is enabled
RefreshEnabled(d) == d > 0

\* 148-159: one iteration of the loop that starts the get-sth goroutines
StartRefresh ==
    /\ Running /\ pc = "tickers"
    /\ RefreshEnabled(getSTHInterval)
    /\ ~LoopDone(Len(taskPc) + 1, cfg)
    /\ taskPc' = Append(taskPc, "waiting")
    /\ taskCfg' = Append(taskCfg, cfg[Len(taskPc) + 1])
    /\ taskClient' = Append(taskClient, Client)
    /\ tickerLeft' = Append(tickerLeft, NewTicker(getSTHInterval).left)
    /\ tickerC' = Append(tickerC, NewTicker(getSTHInterval).C)
    /\ UNCHANGED <<flagVars, mainVars, metricsVars, sigVars, server, procVars,
                   directory, histVars>>

\* 162-165, 174-177: go awaitSignal(...), which registers a channel of
\* capacity one with signal.Notify and blocks on it
GoAwaitSignal ==
    /\ Running /\ pc = "tickers"
    /\ ~RefreshEnabled(getSTHInterval) \/ LoopDone(Len(taskPc) + 1, cfg)
    /\ sigPc' = "waiting"
    /\ pc' = "listen"
    /\ UNCHANGED <<flagVars, connVars, cfg, metricsAt, etcdClient, defers, conn, regAge, mux,
                   metricsVars, taskVars, sigs, server, procVars, directory,
                   histVars>>

\* 166-169: server.ListenAndServe() binds and serves, or fails to bind and
\* returns; then the error is logged, the log flushed, and main returns
ListenAndServe ==
    /\ Running /\ pc = "listen"
    /\ \/ /\ server' = "listening"
          /\ pc' = "serving"
       \/ /\ server' = "failed"
          /\ pc' = "defers"
    /\ UNCHANGED <<flagVars, connVars, cfg, metricsAt, etcdClient, defers, conn, regAge, mux,
                   metricsVars, taskVars, sigVars, procVars, directory,
                   histVars>>

\* 167-169: ListenAndServe returns an error while serving; the error is
\* logged, the log flushed, and main returns
ServerReturn ==
    /\ Running /\ pc = "serving"
    /\ server' = "returned"
    /\ pc' = "defers"
    /\ UNCHANGED <<flagVars, connVars, cfg, metricsAt, etcdClient, defers, conn, regAge, mux,
                   metricsVars, taskVars, sigVars, procVars, directory,
                   histVars>>

\* ---------------------------------------- the deferred calls, last one first
Top(s) == s[Len(s)]
Pop(s) == SubSeq(s, 1, Len(s) - 1)

\* 117: conn.Close()
DeferredClose ==
    /\ Running /\ pc = "defers" /\ defers # <<>> /\ Top(defers) = "close"
    /\ conn' = "closed"
    /\ defers' = Pop(defers)
    /\ UNCHANGED <<flagVars, connVars, pc, cfg, metricsAt, etcdClient, regAge, mux,
                   metricsVars, taskVars, sigVars, server, procVars, directory,
                   histVars>>

\* 102-104: the first half of the deferred retraction
DeferredByeHTTP ==
    /\ Running /\ pc = "defers" /\ defers # <<>> /\ Top(defers) = "byeHTTP"
    /\ \E out \in UpdateOutcomes :
         /\ Update("Delete", etcdHTTPService, httpEndpoint, out)
         /\ IF out = "stuck"
            THEN pc' = "blocked" /\ UNCHANGED defers
            ELSE pc' = pc /\ defers' = Append(Pop(defers), "byeMetrics")
    /\ UNCHANGED <<flagVars, connVars, cfg, metricsAt, etcdClient, conn, regAge, mux,
                   metricsVars, taskVars, sigVars, server, procVars, fatal,
                   failed>>

\* 105-107: the second half
DeferredByeMetrics ==
    /\ Running /\ pc = "defers" /\ defers # <<>> /\ Top(defers) = "byeMetrics"
    /\ \E out \in UpdateOutcomes :
         /\ Update("Delete", etcdMetricsService, metricsAt, out)
         /\ IF out = "stuck"
            THEN pc' = "blocked" /\ UNCHANGED defers
            ELSE pc' = pc /\ defers' = Pop(defers)
    /\ UNCHANGED <<flagVars, connVars, cfg, metricsAt, etcdClient, conn, regAge, mux,
                   metricsVars, taskVars, sigVars, server, procVars, fatal,
                   failed>>

\* 170: main returns (exit status 0), or the panic ends the program (2)
MainEnds ==
    /\ Running /\ pc = "defers" /\ defers = <<>>
    /\ IF panicking THEN Exit(PanicStatus, "panic")
                    ELSE Exit(ReturnStatus, "return")
    /\ pc' = "done"
    /\ UNCHANGED <<flagVars, connVars, cfg, metricsAt, etcdClient, defers, conn, regAge, mux,
                   metricsVars, taskVars, sigVars, server, directory, histVars>>

\* --------------------------------------- the separate metrics server: 133-139
\* (variant: the goroutine puts the handler on the DefaultServeMux)
MetricsListen_default ==
    /\ Running /\ metricsServer = "spawned"
    /\ mux' = mux \cup { <<MetricsPath, 0>> }
    /\ \E ok \in BOOLEAN :
         metricsServer' = IF ok THEN "listening" ELSE "failed"
    /\ UNCHANGED <<flagVars, connVars, pc, cfg, metricsAt, etcdClient, defers,
                   conn, regAge, metricsMux, taskVars, sigVars, server,
                   procVars, directory, histVars>>

\* 134-138: the goroutine builds its own mux and binds, or fails to bind;
\* a failure is logged
MetricsListen ==
    /\ Running /\ metricsServer = "spawned"
    /\ metricsMux' = { MetricsPath }
    /\ \E ok \in BOOLEAN :
         metricsServer' = IF ok THEN "listening" ELSE "failed"
    /\ UNCHANGED <<flagVars, mainVars, taskVars, sigVars, server, procVars,
                   directory, histVars>>

\* (variant: the error is reported with glog.Exitf)
MetricsExit_fatal ==
    /\ Running /\ metricsServer = "listening"
    /\ metricsServer' = "exited"
    /\ Exit(ExitfStatus, "exitf")
    /\ UNCHANGED <<flagVars, mainVars, metricsMux, taskVars, sigVars, server,
                   directory, histVars>>

\* 137-138: ListenAndServe returns; the error is logged
MetricsExit ==
    /\ Running /\ metricsServer = "listening"
    /\ metricsServer' = "exited"
    /\ UNCHANGED <<flagVars, mainVars, metricsMux, taskVars, sigVars, server,
                   procVars, directory, histVars>>

\* ------------------------------------------ the get-sth goroutines: 149-158
Tasks == 1 .. Len(taskPc)

\* (variant: the fetches are serialised, one log at a time)
FetchReady_serial(i) ==
    /\ taskPc[i] = "waiting" /\ tickerC[i] = 1
    /\ \A j \in Tasks : taskPc[j] = "waiting"

\* 152: the goroutine is blocked in "range ticker.C" and a tick is there
FetchReady(i) == taskPc[i] = "waiting" /\ tickerC[i] = 1

\* the goroutine is inside GetTreeHead
InCall(i) == taskPc[i] \in {"fetching", "unanswered"}

\* 152-154: take the tick and call ctfe.GetTreeHead; the backend is going to
\* answer the call, or it is not
RefreshRecv(i) ==
    /\ Running /\ i \in Tasks
    /\ FetchReady(i)
    /\ tickerC' = [tickerC EXCEPT ![i] = 0]
    /\ \E st \in {"fetching", "unanswered"} :
         taskPc' = [taskPc EXCEPT ![i] = st]
    /\ UNCHANGED <<flagVars, mainVars, metricsVars, taskCfg, taskClient, tickerLeft,
                   sigVars, server, procVars, directory, histVars>>

\* (variant: the goroutine returns on the first error)
AfterFetch_return(res) == IF res = "err" THEN "stopped" ELSE "waiting"

\* 154-157: whatever GetTreeHead returned, the loop goes on to the next tick
AfterFetch(res) == "waiting"

\* What the backend can answer on the connection
FetchResults(c) == IF c = "open" THEN {"ok", "err"} ELSE {"err"}

\* 58, 154: the context handed to GetTreeHead is context.Background(),
\* which has no deadline and is never cancelled
CtxExpires == FALSE

\* a call that the backend does not answer returns, with an error, when its
\* context expires or the connection is closed under it
Abandoned(i) == taskPc[i] = "unanswered" /\ (CtxExpires \/ conn = "closed")

\* 154-157: GetTreeHead returns
FetchReturn(i) ==
    /\ Running /\ i \in Tasks
    /\ taskPc[i] = "fetching" \/ Abandoned(i)
    /\ \E res \in IF Abandoned(i) THEN {"err"} ELSE FetchResults(conn) :
         /\ taskPc' = [taskPc EXCEPT ![i] = AfterFetch(res)]
         /\ failed' = IF res = "err" THEN i ELSE failed
    /\ UNCHANGED <<flagVars, mainVars, metricsVars, taskCfg, taskClient, tickerLeft, tickerC,
                   sigVars, server, procVars, directory, fatal, updates>>

\* ------------------------------------------------------ awaitSignal: 174-185
\* The operating system delivers SIGINT or SIGTERM to the channel that
\* Notify registered; a signal that finds the channel full is dropped.
Signal(sig) ==
    /\ Running /\ sigPc = "waiting"
    /\ sigs' = IF Len(sigs) < 1 THEN Append(sigs, sig) ELSE sigs
    /\ UNCHANGED <<flagVars, mainVars, metricsVars, taskVars, sigPc, server,
                   procVars, directory, histVars>>

\* (variant: the callback returns without ending the process)
AwaitSignal_logged ==
    /\ Running /\ sigPc = "waiting" /\ sigs # <<>>
    /\ sigs' = Tail(sigs)
    /\ sigPc' = "done"
    /\ UNCHANGED <<flagVars, mainVars, metricsVars, taskVars, server,
                   procVars, directory, histVars>>

\* 180-184, 163-165: receive the signal, log, flush, doneFn: os.Exit(1)
AwaitSignal ==
    /\ Running /\ sigPc = "waiting" /\ sigs # <<>>
    /\ sigs' = Tail(sigs)
    /\ sigPc' = "done"
    /\ Exit(SignalExitStatus, "signal")
    /\ UNCHANGED <<flagVars, mainVars, metricsVars, taskVars, server,
                   directory, histVars>>

\* --------------------------------------------------------------- the clock
Min(a, b) == IF a < b THEN a ELSE b

\* One unit of time passes: every registered log is one unit older, and a
\* ticker whose period has run out puts a tick on its channel (capacity one:
\* a tick that finds the channel full is dropped) and starts its next period.
Tick ==
    /\ Running
    /\ regAge' = [k \in DOMAIN regAge |-> Min(regAge[k] + 1, getSTHInterval)]
    /\ tickerLeft' = [i \in DOMAIN tickerLeft |->
                        IF tickerLeft[i] = 1 THEN getSTHInterval
                                             ELSE tickerLeft[i] - 1]
    /\ tickerC' = [i \in DOMAIN tickerC |->
                        IF tickerLeft[i] = 1 THEN 1 ELSE tickerC[i]]
    /\ UNCHANGED <<flagVars, connVars, pc, cfg, metricsAt, etcdClient, defers, conn, mux,
                   metricsVars, taskPc, taskCfg, taskClient, sigVars,
                   server, procVars, directory, histVars>>

\* ------------------------------------------------------------ specification
Next ==
    \/ LoadConfig
    \/ NewEtcdClient
    \/ FixedResolver
    \/ AnnounceHTTP
    \/ AnnounceMetrics
    \/ Dial
    \/ SetUp
    \/ MetricsSetup
    \/ StartRefresh
    \/ GoAwaitSignal
    \/ ListenAndServe
    \/ ServerReturn
    \/ DeferredClose
    \/ DeferredByeHTTP
    \/ DeferredByeMetrics
    \/ MainEnds
    \/ MetricsListen
    \/ MetricsExit
    \/ \E i \in Tasks : RefreshRecv(i)
    \/ \E i \in Tasks : FetchReturn(i)
    \/ \E sig \in Signals : Signal(sig)
    \/ AwaitSignal
    \/ Tick

Spec == Init /\ [][Next]_vars

TypeOK ==
    /\ status \in {"running", "exited"}
    /\ conn \in {"none", "open", "closed"}
    /\ Len(regAge) <= Len(cfg)
    /\ Len(taskPc) <= Len(cfg)

\* ================================================================ properties
ListenerStarted == server # "none" \/ metricsServer # "none"
RefreshStarted  == Len(taskPc) > 0

\* instance k has been set up and all its paths are in the DefaultServeMux
Registered(k) ==
    /\ k <= Len(regAge)
    /\ \A p \in Handlers(cfg[k]) : <<p, k>> \in mux

AllRegistered == \A k \in 1 .. Len(cfg) : Registered(k)

\* the main goroutine has reached (or passed) ListenAndServe
StartupDone == sigPc # "none"

RetractAttempted(service, addr) ==
    \E n \in 1 .. Len(updates) :
        updates[n] = [Op |-> "Delete", Service |-> service, Addr |-> addr]

\* C1: whenever a listener (main or metrics) or a get-sth goroutine has been
\* started, every configured log has been set up and its paths installed;
\* and once a registration has failed none of them has been started.
C1_RegisteredBeforeServing ==
    /\ (ListenerStarted \/ RefreshStarted) => AllRegistered
    /\ fatal \in {"setup", "panic"} => ~(ListenerStarted \/ RefreshStarted)

C1_Witness ==
    /\ server = "listening" /\ metricsServer = "listening"
    /\ Len(cfg) = 2 /\ Len(taskPc) = 2 /\ AllRegistered

\* C2 (as claimed): under the etcd resolver the connection to the backend is
\* never closed while no retraction has been attempted.
C2_RetractBeforeClose ==
    (etcdServers /\ conn = "closed") =>
        /\ RetractAttempted(etcdHTTPService, httpEndpoint)
        /\ RetractAttempted(etcdMetricsService, metricsAt)

\* the listener that serves the address announced under the service has
\* been brought up
ListenerFor(service) ==
    IF service = etcdMetricsService /\ SeparateMetrics(metricsAt, httpEndpoint)
    THEN metricsServer \in {"listening", "exited"}
    ELSE server \in {"listening", "returned"}

\* C3 (as claimed): an address of this process is in the directory only if
\* the listener for that address has been started.
C3_AnnounceAfterListen ==
    \A r \in directory : ListenerFor(r[1])

\* C4 (as claimed): a termination signal received while serving ends the
\* process with exit status zero, after the announcements were retracted
\* and the backend connection closed.
C4_SignalDrainsAndExitsZero ==
    exitBy = "signal" =>
        /\ exitCode = 0
        /\ conn = "closed"
        /\ etcdServers => /\ RetractAttempted(etcdHTTPService, httpEndpoint)
                          /\ RetractAttempted(etcdMetricsService, metricsAt)

\* C5 (as claimed): once the main listener has returned, the process ends
\* with a nonzero exit status.
C5_ListenerReturnExitsNonzero ==
    (status = "exited" /\ server \in {"failed", "returned"}) => exitCode # 0

\* C6: once SetUpInstance has failed for a log, or the installation of its
\* paths has panicked, no listener and no get-sth goroutine is ever started,
\* and the process ends with a nonzero exit status (at once in the first
\* case).
C6_FailedSetupIsFatal ==
    fatal \in {"setup", "panic"} =>
        /\ server = "none" /\ metricsServer = "none" /\ Len(taskPc) = 0
        /\ sigPc = "none"
        /\ fatal = "setup" => status = "exited"
        /\ status = "exited" => exitCode # 0

C6_Witness ==
    /\ fatal = "setup" /\ status = "exited" /\ exitCode = ExitfStatus
    /\ Len(cfg) = 2 /\ Len(regAge) = 1

\* C7: a failure to load the config, to create the etcd client or to dial
\* the backend ends the process at once with a nonzero exit status, at the
\* statement that failed and with no listener started; when it is the config
\* that failed, etcd has not been contacted, nothing was announced and the
\* backend was not dialled.
C7_StartupFailureIsFatal ==
    /\ fatal \in {"config", "etcd", "dial"} =>
           /\ status = "exited" /\ exitCode # 0
           /\ server = "none" /\ metricsServer = "none"
    /\ fatal = "config" =>
           /\ pc = "loadcfg"
           /\ etcdClient = "none" /\ updates = <<>> /\ directory = {}
           /\ conn = "none"
    /\ fatal = "etcd" => pc = "resolver" /\ conn = "none"
    /\ fatal = "dial" => pc = "dial" /\ conn = "none"

C7_Witness ==
    /\ fatal = "dial" /\ status = "exited" /\ exitCode = ExitfStatus
    /\ etcdClient = "open" /\ Len(updates) = 2

\* C8: with a refresh interval of 0 there is never a get-sth goroutine; with
\* an interval above 0, once startup is over there is exactly one goroutine
\* per configured log, bound to that log's id and prefix, and no tick is
\* delivered and no fetch made before a full interval has passed since that
\* log was registered.
C8_RefreshTasks ==
    /\ getSTHInterval = 0 => Len(taskPc) = 0
    /\ (getSTHInterval > 0 /\ StartupDone) =>
           /\ taskCfg = cfg
           /\ \A k \in 1 .. Len(cfg) :
                 Cardinality({ i \in Tasks : taskCfg[i] = cfg[k] }) = 1
    /\ \A i \in Tasks :
           (tickerC[i] = 1 \/ InCall(i)) =>
               (i <= Len(regAge) /\ regAge[i] >= getSTHInterval)

C8_Witness ==
    /\ getSTHInterval = 2 /\ Len(cfg) = 2 /\ StartupDone
    /\ taskPc[1] = "fetching" /\ taskPc[2] = "waiting" /\ tickerC[2] = 1

\* a goroutine with a tick can take it while another one's fetch is
\* outstanding
C9_Isolated ==
    \A a \in Tasks : \A b \in Tasks \ {a} :
        (Running /\ InCall(a)
                 /\ taskPc[b] = "waiting" /\ tickerC[b] = 1)
            => ENABLED RefreshRecv(b)

\* the step in which a's fetch returns
C9_ReturnTouchesNothingElse ==
    \A a \in Tasks :
        (InCall(a) /\ taskPc'[a] = "waiting") =>
            /\ \A b \in Tasks \ {a} : taskPc'[b] = taskPc[b]
            /\ UNCHANGED <<tickerC, tickerLeft, server, metricsServer, pc,
                           status, conn>>

\* C9: while the fetch for one log is outstanding (slow, hung or about to
\* fail), the goroutine of any other log that has a tick takes it and
\* fetches; and the return of a fetch changes nothing of the other
\* goroutines, their tickers, the listeners or the main goroutine.
C9_RefreshIsolation == []C9_Isolated /\ [][C9_ReturnTouchesNothingElse]_vars

C9_Witness ==
    /\ Running /\ server = "listening"
    /\ Len(taskPc) = 2
    /\ failed = 1 /\ taskPc[1] = "fetching"
    /\ taskPc[2] = "fetching"

\* a goroutine never ends, and takes the tick that is there for it
C10_Alive ==
    \A i \in Tasks :
        /\ taskPc[i] \in {"waiting", "fetching", "unanswered"}
        /\ (Running /\ taskPc[i] = "waiting" /\ tickerC[i] = 1)
               => ENABLED RefreshRecv(i)

\* the steps in which a fetch returns, or is started
C10_Step ==
    \A i \in Tasks :
        /\ (InCall(i) /\ taskPc'[i] # taskPc[i]) =>
               /\ taskPc'[i] = "waiting"
               /\ UNCHANGED <<status, exitCode, pc, server>>
        /\ (~InCall(i) /\ taskPc'[i] # taskPc[i]) =>
               (tickerC[i] = 1 /\ tickerC'[i] = 0)

\* C10: when a fetch returns, with an error or not, its goroutine goes back
\* to waiting for the next tick and the process goes on as before; it takes
\* the next tick and fetches again; a fetch is only ever started by taking a
\* tick; and a goroutine never ends.
C10_FetchFailureNotFatal == []C10_Alive /\ [][C10_Step]_vars

C10_Witness ==
    /\ Running /\ pc = "serving"
    /\ Len(taskPc) = 1
    /\ failed = 1 /\ taskPc[1] = "fetching"

\* the addresses written in --log_rpc_server: its pieces other than commas
ConfiguredAddresses == { << t >> : t \in Range(rpcBackendFlag) \ {","} }

\* C11: without --etcd_servers no etcd client is ever created, no Update
\* (announce or retract) is ever sent, the directory stays as it was, and
\* the backend connection balances over exactly the addresses listed in
\* --log_rpc_server.
C11_StaticResolver ==
    ~etcdServers =>
        /\ etcdClient = "none"
        /\ updates = <<>>
        /\ directory = {}
        /\ conn = "none" => endpoints = {}
        /\ conn # "none" => endpoints = ConfiguredAddresses

C11_Witness ==
    /\ ~etcdServers /\ Len(rpcBackendFlag) = 3
    /\ status = "exited" /\ exitBy = "return" /\ conn = "closed"
    /\ Cardinality(endpoints) = 2

\* C12: at most one backend connection is ever created, and every call of
\* SetUpInstance and every get-sth goroutine is given that one connection.
C12_OneSharedConnection ==
    /\ dialled <= 1
    /\ conn # "none" <=> dialled = 1
    /\ \A n \in 1 .. Len(setUps) : setUps[n].client = 1
    /\ \A i \in Tasks : taskClient[i] = 1

C12_Witness ==
    /\ dialled = 1 /\ server = "listening"
    /\ Len(setUps) = 2 /\ Len(regAge) = 2 /\ Len(taskClient) = 2

\* C13: SetUpInstance is called once for each log of the config, in the
\* order of the config and only once the backend connection exists; and once
\* startup is over every log of the config has been set up and owns exactly
\* its own paths in the mux.
C13_SetUpOncePerLogInOrder ==
    /\ Len(setUps) <= Len(cfg)
    /\ \A n \in 1 .. Len(setUps) : setUps[n].log = n
    /\ setUps # <<>> => dialled = 1 /\ conn # "none"
    /\ StartupDone =>
           /\ Len(setUps) = Len(cfg) /\ Len(regAge) = Len(cfg)
           /\ \A k \in 1 .. Len(cfg) :
                 { e[1] : e \in { x \in mux : x[2] = k } } = Handlers(cfg[k])

C13_Witness ==
    /\ StartupDone /\ getSTHInterval = 0 /\ pc = "serving"
    /\ Len(cfg) = 2 /\ setUps[1].log = 1 /\ setUps[2].log = 2

\* two logs of the config share a path, or a log has the metrics path while
\* the metrics are served by the main listener
Colliding(c) ==
    \/ \E j \in 1 .. Len(c) : \E k \in 1 .. Len(c) :
          j # k /\ Handlers(c[j]) \cap Handlers(c[k]) # {}
    \/ \E k \in 1 .. Len(c) :
          MetricsPath \in Handlers(c[k])
             /\ ~SeparateMetrics(metricsAt, httpEndpoint)

\* C14: while the main listener serves, the mux holds the path set of each
\* of the N configured logs and of no other log, and no path belongs to two
\* owners (two logs, or a log and the metrics handler); with a colliding
\* config the main listener is never started.
C14_PathSetsInstalled ==
    /\ server = "listening" =>
           /\ { e[2] : e \in mux } \ {0} = 1 .. Len(cfg)
           /\ \A k \in 1 .. Len(cfg) :
                 { e[1] : e \in { x \in mux : x[2] = k } } = Handlers(cfg[k])
           /\ \A e \in mux : \A f \in mux : e[1] = f[1] => e[2] = f[2]
    /\ Colliding(cfg) => server = "none"

C14_Witness ==
    /\ server = "listening" /\ Len(cfg) = 2
    /\ <<MetricsPath, 0>> \in mux
    /\ Cardinality(mux) = 2 * Cardinality(EntryPoints) + 1

\* --------------------------------------------------------------- fairness
\* The steps of the main goroutine that need nothing but the processor.
\* (The return of a serving listener is an event of the environment.)
MainStep ==
    \/ LoadConfig
    \/ NewEtcdClient
    \/ FixedResolver
    \/ AnnounceHTTP
    \/ AnnounceMetrics
    \/ Dial
    \/ SetUp
    \/ MetricsSetup
    \/ StartRefresh
    \/ GoAwaitSignal
    \/ ListenAndServe
    \/ DeferredClose
    \/ DeferredByeHTTP
    \/ DeferredByeMetrics
    \/ MainEnds

\* The scheduler runs every goroutine that can run: the main goroutine goes
\* on while it is not blocked, awaitSignal handles a signal it received, and
\* a get-sth goroutine whose call can return goes on.
FairSpec ==
    /\ Spec
    /\ WF_vars(MainStep)
    /\ WF_vars(AwaitSignal)
    /\ \A i \in 1 .. MaxLogs : WF_vars(FetchReturn(i))

\* The same with --get_sth_interval fixed at one unit of time, the shortest
\* period with which the get-sth goroutines run: every action of the program
\* occurs, and the length of the period plays no part in what awaitSignal
\* does.
InitShortInterval == Init /\ getSTHInterval = 1

FairSpecShortInterval ==
    /\ InitShortInterval /\ [][Next]_vars
    /\ WF_vars(MainStep)
    /\ WF_vars(AwaitSignal)
    /\ \A i \in 1 .. MaxLogs : WF_vars(FetchReturn(i))

\* the lifecycle state of the process, read off the main goroutine
Phase ==
    IF status = "exited" THEN "TERMINATED"
    ELSE CASE pc = "loadcfg" -> "INIT"
           [] pc \in {"resolver", "announceHTTP", "announceMetrics"} -> "RESOLVING"
           [] pc = "dial" -> "CONNECTING"
           [] pc = "setup" -> "REGISTERING"
           [] pc \in {"tickers", "listen"} -> "ANNOUNCING"
           [] pc = "serving" -> "SERVING"
           [] pc = "defers" -> "DRAINING"
           [] pc = "blocked" -> IF conn = "none" THEN "RESOLVING" ELSE "DRAINING"
           [] pc = "done" -> "TERMINATED"

PhaseRank ==
    CASE Phase = "INIT" -> 1
      [] Phase = "RESOLVING" -> 2
      [] Phase = "CONNECTING" -> 3
      [] Phase = "REGISTERING" -> 4
      [] Phase = "ANNOUNCING" -> 5
      [] Phase = "SERVING" -> 6
      [] Phase = "DRAINING" -> 7
      [] Phase = "TERMINATED" -> 8

AnnounceAttempted ==
    \E n \in 1 .. Len(updates) : updates[n].Op = "Add"

C15_AnnounceInOrder ==
    AnnounceAttempted =>
        /\ PhaseRank >= 5
        /\ conn # "none"
        /\ Len(regAge) = Len(cfg) /\ AllRegistered

\* C15 (as claimed): the process moves through INIT, RESOLVING, CONNECTING,
\* REGISTERING, ANNOUNCING, SERVING, DRAINING, TERMINATED and never back, and
\* it announces its addresses only once the backend connection is there and
\* every log is registered.
C15_LifecycleOrder ==
    []C15_AnnounceInOrder /\ [][PhaseRank' >= PhaseRank]_vars

\* C16 (as claimed): when the process has ended, every announcement it made
\* has been followed by an attempt to retract the same service and address.
C16_AnnouncedIsRetracted ==
    status = "exited" =>
        \A n \in 1 .. Len(updates) :
            updates[n].Op = "Add" =>
                RetractAttempted(updates[n].Service, updates[n].Addr)

\* C18 (as claimed): when the process has ended, the backend connection, if
\* one was made, has been closed, and the etcd client, if one was created,
\* has been closed.
C18_ReleasedOnExit ==
    status = "exited" => (conn # "open" /\ etcdClient # "open")

\* C17 (as claimed): once the main goroutine has begun to run its deferred
\* teardown, the process ends, whatever etcd does with the retractions.
C17_DrainTerminates ==
    (Running /\ pc = "defers") ~> (status = "exited")

\* the metrics handler is in the route table of the main listener
MetricsShared == <<MetricsPath, 0>> \in mux

\* the goroutine of the separate metrics listener has been started
MetricsTask == metricsServer # "none"

\* main is past the block that places the metrics (131-143); a panic of the
\* registration loop goes to the deferred calls without passing it
MetricsPlaced ==
    \/ pc \in {"tickers", "listen", "serving"}
    \/ pc \in {"defers", "blocked", "done"} /\ conn # "none" /\ ~panicking

\* C19: the metrics address is the HTTP endpoint when --metrics_endpoint is
\* unset and the flag otherwise; once the metrics are placed, the separate
\* metrics listener task exists exactly when the metrics address differs from
\* the HTTP endpoint, and otherwise the metrics handler is in the main mux;
\* the handler is never in both route tables and never in neither.
C19_MetricsPlacement ==
    /\ pc # "loadcfg" =>
          /\ metricsEndpoint = "" => metricsAt = httpEndpoint
          /\ metricsEndpoint # "" => metricsAt = metricsEndpoint
    /\ MetricsShared => ~MetricsTask
    /\ metricsMux # {} => (MetricsTask /\ metricsMux = { MetricsPath })
    /\ MetricsPlaced =>
          /\ MetricsTask <=> metricsAt # httpEndpoint
          /\ MetricsShared <=> metricsAt = httpEndpoint
          /\ metricsServer = "listening" => metricsMux = { MetricsPath }

\* the flag is set to the HTTP endpoint itself: the metrics are served by the
\* main listener, which is up, and no metrics goroutine exists
C19_Witness ==
    /\ Running /\ server = "listening"
    /\ metricsEndpoint = httpEndpoint
    /\ MetricsShared /\ ~MetricsTask

\* ------------------------------------------- the directory, taken by itself
\* The resolver of line 89 is used by this process to announce and retract
\* (96-106) and by every client of the service to resolve it.  Here a
\* directory that starts empty receives the updates of any instances of the
\* program, each naming one of the two services and its own address, and
\* carries every one of them out.
DirServices == { etcdHTTPService, etcdMetricsService }
DirAddrs == { "h:6962", "m:6963", "h2:6962" }

\* the addresses a resolution of the service yields: those of the records
\* kept under the service
ResolveIn(dir, service) == { r[2] : r \in { x \in dir : x[1] = service } }

InitDir ==
    /\ Init
    /\ etcdServers /\ metricsEndpoint = "m:6963" /\ getSTHInterval = 0

\* 96, 98: an instance announces an address under a service
DirAnnounce ==
    /\ Len(updates) < MaxUpdates
    /\ \E s \in DirServices : \E a \in DirAddrs : Update("Add", s, a, "ok")
    /\ UNCHANGED <<flagVars, mainVars, metricsVars, taskVars, sigVars, server,
                   procVars, fatal, failed>>

\* 104, 106: an instance retracts an address under a service
DirRetract ==
    /\ Len(updates) < MaxUpdates
    /\ \E s \in DirServices : \E a \in DirAddrs : Update("Delete", s, a, "ok")
    /\ UNCHANGED <<flagVars, mainVars, metricsVars, taskVars, sigVars, server,
                   procVars, fatal, failed>>

NextDir == DirAnnounce \/ DirRetract

SpecDirectory == InitDir /\ [][NextDir]_vars

UpdateOf(op, service, addr) == [Op |-> op, Service |-> service, Addr |-> addr]

C21_Step ==
    /\ mux' # mux => (server = "none" /\ server' = "none")
    /\ metricsMux' # metricsMux => mux' = mux

\* C21: the DefaultServeMux, the route table of the main listener, changes
\* only before the main listener is started: the paths of the logs and the
\* shared /metrics path are all installed by then; the separate metrics
\* listener fills its own route table and never the DefaultServeMux.
C21_MuxFrozenWhileServing ==
    /\ [][C21_Step]_vars
    /\ [](server # "none" => pc \in {"serving", "defers", "blocked", "done"})

\* the main listener serves the paths of two logs while the separate
\* metrics listener has built its own table
C21_Witness ==
    /\ server = "listening" /\ Len(cfg) = 2 /\ AllRegistered
    /\ metricsServer = "listening" /\ metricsMux = { MetricsPath }
    /\ ~MetricsShared

\* C22 (as claimed): no get-sth goroutine takes a tick and calls GetTreeHead
\* once the backend connection has been closed.
C22_NoFetchAfterClose ==
    [][\A i \in Tasks :
          (~InCall(i) /\ taskPc'[i] # taskPc[i]) => conn # "closed"]_vars

\* C23 (as claimed): a call of GetTreeHead that the backend never answers
\* returns all the same, so that its goroutine is back at waiting for the
\* next tick (unless the process has ended by then).
C23_FetchBounded ==
    \A i \in 1 .. MaxLogs :
        (i \in Tasks /\ taskPc[i] = "unanswered")
            ~> (status = "exited" \/ (i \in Tasks /\ taskPc[i] = "waiting"))

\* the callback has just ended the process
C24_CallbackRan == exitBy' = "signal" /\ exitBy # "signal"

\* C24: once awaitSignal waits on its channel, a SIGINT or SIGTERM that has
\* been delivered to the channel leads to the end of the process, whatever
\* the main goroutine, the listeners and the get-sth goroutines are doing or
\* blocked in; and the callback ends the process only in a step that takes
\* a delivered signal from the channel.
C24_SignalTerminates ==
    /\ (sigPc = "waiting" /\ sigs # <<>>) ~> (status = "exited")
    /\ [][C24_CallbackRan => (sigPc = "waiting" /\ sigs # <<>> /\ sigs' = Tail(sigs))]_vars

\* the signal ended the process while the main listener was serving, the
\* metrics listener was up and a get-sth call was waiting for an answer that
\* never comes
C24_Witness ==
    /\ status = "exited" /\ exitBy = "signal"
    /\ server = "listening" /\ metricsServer = "listening"
    /\ Len(taskPc) = 1 /\ taskPc[1] = "unanswered"

\* the separate metrics listener has failed to bind or has returned
MetricsDown == metricsServer \in {"failed", "exited"}

\* with the metrics listener down the get-sth goroutines go on taking their
\* ticks, and the main goroutine is where it would be otherwise
C25_GoesOn ==
    (Running /\ MetricsDown) =>
        /\ \A i \in Tasks :
              (taskPc[i] = "waiting" /\ tickerC[i] = 1) => ENABLED RefreshRecv(i)
        /\ pc = "listen" => ENABLED ListenAndServe

\* the step in which the metrics listener goes down changes nothing else
C25_Step ==
    (metricsServer' # metricsServer /\ metricsServer' \in {"failed", "exited"}) =>
        UNCHANGED <<mainVars, taskVars, sigVars, server, procVars, directory,
                    histVars>>

\* C25: when the separate metrics listener fails to bind or returns, nothing
\* but that listener changes: the main goroutine, the main listener, the
\* get-sth goroutines, the process status and the directory stay as they
\* are, no retraction is sent, and the process goes on serving.
C25_MetricsFailureOnlyLogged == []C25_GoesOn /\ [][C25_Step]_vars

\* the metrics listener has returned while the main listener serves, a fetch
\* is under way and the metrics address is still announced, with no
\* retraction sent
C25_Witness ==
    /\ Running /\ pc = "serving" /\ server = "listening"
    /\ metricsServer = "exited"
    /\ Len(taskPc) = 1 /\ taskPc[1] = "fetching"
    /\ <<etcdMetricsService, metricsAt>> \in directory
    /\ ~RetractAttempted(etcdMetricsService, metricsAt)

\* C26 (as claimed): with --etcd_servers, whenever the main listener serves,
\* the etcd client was created and the records of the HTTP address and of the
\* metrics address are both in the directory.
C26_ServingImpliesAnnounced ==
    (etcdServers /\ Running /\ pc = "serving") =>
        /\ etcdClient = "open"
        /\ <<etcdHTTPService, httpEndpoint>> \in directory
        /\ <<etcdMetricsService, metricsAt>> \in directory

====
